---- MODULE Spec2Model ----
(***************************************************************************)
(* A model of scraping.py: the GitHubScraper request layer (make_request), *)
(* the user search (search_users), the repository fetch                    *)
(* (get_user_repositories), the field extractors and main().               *)
(*                                                                         *)
(* The program is single threaded.  Its only interaction with the outside  *)
(* is the GET of make_request, the clock read by the 403 branch, the       *)
(* sleeps and the two files written by main.  The upstream API is the      *)
(* environment: it answers every GET with a status, an optional            *)
(* X-RateLimit-Reset header and a JSON body, or the GET fails at network   *)
(* level.                                                                  *)
(*                                                                         *)
(* Time is counted in ticks, TicksPerSec ticks to the second, so that the  *)
(* fractional part of time.time() is represented.                          *)
(***************************************************************************)
EXTENDS Integers, Sequences, FiniteSets, TLC

\* ------------------------------------------------------------------ bounds
\* ticks per second of the model clock
TicksPerSec == 2
\* largest reading of time.time(), in ticks
MaxClock == 1
\* the GET counter of one make_request call saturates here ("this many or more")
MaxGets == 2
\* the search endpoint serves at most this many non-empty pages
MaxSearchPages == 2
\* the number of repositories on a short (last) page
ShortPage == 30
\* the longest company name given to clean_company_name on its own
MaxCompanyLen == 3

\* ------------------------------------------------------- program constants
\* per_page of search_users and get_user_repositories, and the short-page test
PER_PAGE == 100
\* default max_repos of get_user_repositories
DEFAULT_MAX_REPOS == 500
\* time.sleep(5) after a RequestException
NET_FAIL_SLEEP == 5

Max(a, b) == IF a >= b THEN a ELSE b
Min(a, b) == IF a <= b THEN a ELSE b

\* --------------------------------------------------------------- JSON values
\* A JSON value is tagged with its type; a JSON object is a function from
\* its keys to values; a Python str is a sequence of characters.
JStr(s) == [t |-> "str", v |-> s]
JInt(n) == [t |-> "int", v |-> n]
JBool(b) == [t |-> "bool", v |-> b]
JNull == [t |-> "null"]
JObj(o) == [t |-> "obj", v |-> o]
JList(l) == [t |-> "list", v |-> l]

EmptyObj == [k \in {} |-> JNull]

\* Python truthiness: None, "", 0, False, {} and [] are falsy
Truthy(x) ==
    CASE x.t = "null" -> FALSE
      [] x.t = "str" -> x.v # <<>>
      [] x.t = "int" -> x.v # 0
      [] x.t = "bool" -> x.v
      [] x.t = "obj" -> DOMAIN x.v # {}
      [] x.t = "list" -> x.v # <<>>

\* dict.get(key, default): the default only when the key is absent
DictGet(d, key, default) == IF key \in DOMAIN d THEN d[key] ELSE default

\* ------------------------------------------------------------ Python strings
Whitespace == {" ", "\t", "\n"}

RECURSIVE LStripSet(_, _)
\* str.lstrip(chars): drops every leading character that is in chars
LStripSet(s, chars) ==
    IF s # <<>> /\ Head(s) \in chars THEN LStripSet(Tail(s), chars) ELSE s

RECURSIVE RStripSet(_, _)
RStripSet(s, chars) ==
    IF s # <<>> /\ s[Len(s)] \in chars
    THEN RStripSet(SubSeq(s, 1, Len(s) - 1), chars)
    ELSE s

\* mutant: nothing is stripped
Strip_None(s) == s

\* str.strip(): drops leading and trailing whitespace
Strip(s) == RStripSet(LStripSet(s, Whitespace), Whitespace)

UpperChar(c) ==
    CASE c = "a" -> "A" [] c = "b" -> "B" [] c = "c" -> "C" [] c = "e" -> "E"
      [] c = "m" -> "M" [] OTHER -> c

\* str.upper()
Upper(s) == [i \in 1..Len(s) |-> UpperChar(s[i])]

\* ---------------------------------------------------------- field extractors
\* The result of a call that may raise: a value, or the exception raised.
Val(v) == [exc |-> "none", v |-> v]
Raise(e) == [exc |-> e]

\* GitHubScraper.clean_company_name
clean_company_name(company) ==
    IF Truthy(company) THEN JStr(Upper(LStripSet(Strip(company.v), {"@"})))
    ELSE JStr(<<>>)

\* mutant: hireable is read with data.get("hireable"), without its default
extract_user_data_HireableNoDefault(data) ==
    IF "login" \notin DOMAIN data THEN Raise("KeyError")
    ELSE Val([login |-> data["login"],
              name |-> DictGet(data, "name", JStr(<<>>)),
              company |-> clean_company_name(DictGet(data, "company", JNull)),
              location |-> DictGet(data, "location", JStr(<<>>)),
              email |-> DictGet(data, "email", JStr(<<>>)),
              hireable |-> DictGet(data, "hireable", JNull),
              bio |-> DictGet(data, "bio", JStr(<<>>)),
              public_repos |-> DictGet(data, "public_repos", JInt(0)),
              followers |-> DictGet(data, "followers", JInt(0)),
              following |-> DictGet(data, "following", JInt(0)),
              created_at |-> DictGet(data, "created_at", JStr(<<>>))])

\* GitHubScraper.extract_user_data: data["login"] raises KeyError when absent
extract_user_data(data) ==
    IF "login" \notin DOMAIN data THEN Raise("KeyError")
    ELSE Val([login |-> data["login"],
              name |-> DictGet(data, "name", JStr(<<>>)),
              company |-> clean_company_name(DictGet(data, "company", JNull)),
              location |-> DictGet(data, "location", JStr(<<>>)),
              email |-> DictGet(data, "email", JStr(<<>>)),
              hireable |-> DictGet(data, "hireable", JBool(FALSE)),
              bio |-> DictGet(data, "bio", JStr(<<>>)),
              public_repos |-> DictGet(data, "public_repos", JInt(0)),
              followers |-> DictGet(data, "followers", JInt(0)),
              following |-> DictGet(data, "following", JInt(0)),
              created_at |-> DictGet(data, "created_at", JStr(<<>>))])

RepoRequired == <<"full_name", "created_at", "stargazers_count", "watchers_count">>

\* mutant: the record is labelled with the repository's name instead of
\* the username
extract_repo_data_LoginFromName(username_, repo_data) ==
    IF \E i \in 1..Len(RepoRequired) : RepoRequired[i] \notin DOMAIN repo_data
    THEN Raise("KeyError")
    ELSE LET lic == DictGet(repo_data, "license", JObj(EmptyObj)) IN
         IF lic.t # "obj" THEN Raise("AttributeError")
         ELSE Val([login |-> repo_data["full_name"],
                   full_name |-> repo_data["full_name"],
                   created_at |-> repo_data["created_at"],
                   stargazers_count |-> repo_data["stargazers_count"],
                   watchers_count |-> repo_data["watchers_count"],
                   language |-> DictGet(repo_data, "language", JStr(<<>>)),
                   has_projects |-> DictGet(repo_data, "has_projects", JBool(FALSE)),
                   has_wiki |-> DictGet(repo_data, "has_wiki", JBool(FALSE)),
                   license_name |-> DictGet(lic.v, "key", JStr(<<>>))])

\* GitHubScraper.extract_repo_data: the four subscripted keys raise KeyError
\* when absent; .get("license", {}) yields the stored value when the key is
\* present, and None has no .get
extract_repo_data(username_, repo_data) ==
    IF \E i \in 1..Len(RepoRequired) : RepoRequired[i] \notin DOMAIN repo_data
    THEN Raise("KeyError")
    ELSE LET lic == DictGet(repo_data, "license", JObj(EmptyObj)) IN
         IF lic.t # "obj" THEN Raise("AttributeError")
         ELSE Val([login |-> username_,
                   full_name |-> repo_data["full_name"],
                   created_at |-> repo_data["created_at"],
                   stargazers_count |-> repo_data["stargazers_count"],
                   watchers_count |-> repo_data["watchers_count"],
                   language |-> DictGet(repo_data, "language", JStr(<<>>)),
                   has_projects |-> DictGet(repo_data, "has_projects", JBool(FALSE)),
                   has_wiki |-> DictGet(repo_data, "has_wiki", JBool(FALSE)),
                   license_name |-> DictGet(lic.v, "key", JStr(<<>>))])

\* ------------------------------------------------------------- request layer
\* int() of a header made of one decimal digit
DigitValue(c) ==
    CASE c = "0" -> 0 [] c = "1" -> 1 [] c = "2" -> 2 [] c = "3" -> 3
      [] c = "4" -> 4 [] c = "5" -> 5 [] c = "6" -> 6 [] c = "7" -> 7
      [] c = "8" -> 8 [] c = "9" -> 9

RECURSIVE ParseInt(_)
ParseInt(s) ==
    IF s = <<>> THEN 0
    ELSE 10 * ParseInt(SubSeq(s, 1, Len(s) - 1)) + DigitValue(s[Len(s)])

\* response.headers: a function from the header names present to their text
NoHeaders == [k \in {} |-> <<>>]
ResetHeader(text) == [k \in {"X-RateLimit-Reset"} |-> text]

\* int(response.headers.get("X-RateLimit-Reset", 0)), in seconds
ResetTime(headers) ==
    IF "X-RateLimit-Reset" \in DOMAIN headers
    THEN ParseInt(headers["X-RateLimit-Reset"])
    ELSE 0

\* mutant: the sleep without the floor at zero
SleepDuration_NoFloor(reset_time, t) ==
    reset_time * TicksPerSec - t + 1 * TicksPerSec

\* max(reset_time - time.time(), 0) + 1, in ticks; t is the clock reading
SleepDuration(reset_time, t) ==
    Max(reset_time * TicksPerSec - t, 0) + 1 * TicksPerSec

\* requests.Response.raise_for_status raises HTTPError for 4xx and 5xx only
RaisesForStatus(status) == status >= 400

\* the classes caught by "except requests.exceptions.RequestException";
\* HTTPError, ConnectionError and Timeout all derive from it
RequestException == {"ConnectionError", "Timeout", "HTTPError"}

\* A GET ends in a response or in an exception raised by requests.get.
Response(status, headers, body) ==
    [kind |-> "response", status |-> status, headers |-> headers, body |-> body]
Failure(e) == [kind |-> "error", error |-> e]

\* mutant: a 403 makes the call give up and return None
TryBlock_GiveUpOn403(r, t) ==
    IF r.kind = "error" THEN [act |-> "raise", exc |-> r.error]
    ELSE IF r.status = 200 THEN [act |-> "return", value |-> r.body]
    ELSE IF r.status = 403 THEN [act |-> "return", value |-> JNull]
    ELSE IF RaisesForStatus(r.status) THEN [act |-> "raise", exc |-> "HTTPError"]
    ELSE [act |-> "loop"]

\* what one pass through the try block does with the outcome r of the GET
\* when the clock reads t: return a value, sleep and loop, loop, or raise
TryBlock(r, t) ==
    IF r.kind = "error" THEN [act |-> "raise", exc |-> r.error]
    ELSE IF r.status = 200 THEN [act |-> "return", value |-> r.body]
    ELSE IF r.status = 403
         THEN [act |-> "sleep", readsClock |-> TRUE,
               duration |-> SleepDuration(ResetTime(r.headers), t)]
    ELSE IF RaisesForStatus(r.status) THEN [act |-> "raise", exc |-> "HTTPError"]
    ELSE [act |-> "loop"]

\* mutant: only ConnectionError is caught, a timeout propagates
ExceptClause_OnlyConnectionError(e) ==
    IF e = "ConnectionError"
    THEN [act |-> "sleep", readsClock |-> FALSE,
          duration |-> NET_FAIL_SLEEP * TicksPerSec]
    ELSE [act |-> "raise", exc |-> e]

\* the except clause: a RequestException is logged and followed by
\* time.sleep(5); anything else propagates
ExceptClause(e) ==
    IF e \in RequestException
    THEN [act |-> "sleep", readsClock |-> FALSE,
          duration |-> NET_FAIL_SLEEP * TicksPerSec]
    ELSE [act |-> "raise", exc |-> e]

\* one iteration of the while True loop of make_request
LoopIteration(r, t) ==
    LET b == TryBlock(r, t) IN
    IF b.act = "raise" THEN ExceptClause(b.exc) ELSE b

\* -------------------------------------------------------------- environment
\* What the upstream API may answer.  Logins are one-character strings:
\* "a", "b" and "f" have a profile, "g" has an empty profile, the profile of
\* "x" lacks its login field.
SearchItem(l) == [login |-> JStr(l), id |-> JInt(1)]
ItemWithoutLogin == [id |-> JInt(2)]

\* the item lists a non-empty search page may hold
SearchItemLists ==
    { <<SearchItem(<<"a">>)>>,
      <<SearchItem(<<"g">>), SearchItem(<<"b">>)>>,
      <<SearchItem(<<"x">>)>>,
      <<SearchItem(<<"f">>)>>,
      <<SearchItem(<<"a">>), ItemWithoutLogin>> }

SearchPage(l) == JObj([total_count |-> JInt(Len(l)), items |-> JList(l)])

\* A search for location "Perth" matches exactly two full pages of users,
\* alternately "a" and "b"; page p of it holds these items.
BigCity == "Perth"
BigItems(p) ==
    [i \in 1..Max(0, Min(PER_PAGE, 2 * PER_PAGE - (p - 1) * PER_PAGE)) |->
       SearchItem(IF i % 2 = 1 THEN <<"a">> ELSE <<"b">>)]

\* bodies that end the pagination: no items, no items key, an empty object
EmptySearchBodies ==
    { SearchPage(<<>>), JObj([message |-> JStr(<<"m">>)]), JObj(EmptyObj) }

Profile(l) ==
    CASE l = <<"a">> -> JObj([login |-> JStr(l), name |-> JStr(<<"A">>),
                              company |-> JStr(<<" ", "@", "a", "c", "m", "e", " ">>),
                              location |-> JStr(<<"S">>), email |-> JNull,
                              hireable |-> JBool(TRUE), bio |-> JNull,
                              public_repos |-> JInt(2), followers |-> JInt(100),
                              following |-> JInt(1), created_at |-> JStr(<<"t">>)])
      [] l = <<"b">> -> JObj([login |-> JStr(l)])
      [] l = <<"f">> -> JObj([login |-> JStr(l), name |-> JNull])
      [] l = <<"x">> -> JObj([name |-> JStr(<<"X">>)])
      [] OTHER -> JObj(EmptyObj)

RepoItem(l, i) ==
    [full_name |-> JStr(l \o <<"/", "r">>), created_at |-> JStr(<<"t">>),
     stargazers_count |-> JInt(i), watchers_count |-> JInt(i),
     language |-> JNull, has_wiki |-> JBool(TRUE),
     license |-> JObj([key |-> JStr(<<"m">>)])]

RepoItemWithoutName(i) ==
    [created_at |-> JStr(<<"t">>), stargazers_count |-> JInt(i),
     watchers_count |-> JInt(i)]

\* The repositories of a login: "a" has a short page, "h" one full page and
\* a short one, "d" exactly one full page, "c" a full page at every page
\* number, "f" a page with an item that lacks full_name; any other login has
\* none.
Endless == {<<"c">>}
TotalRepos(l) ==
    CASE l = <<"a">> -> ShortPage
      [] l = <<"h">> -> PER_PAGE + ShortPage
      [] l = <<"d">> -> PER_PAGE
      [] OTHER -> 0

\* the number of items on page p of the repositories of l
RepoPageLen(l, p) ==
    IF l \in Endless THEN PER_PAGE
    ELSE Max(0, Min(PER_PAGE, TotalRepos(l) - (p - 1) * PER_PAGE))

\* page p of the repository listing of l
RepoPage(l, p) ==
    IF l = <<"f">>
    THEN JList(<<JObj(RepoItem(l, 1)), JObj(RepoItemWithoutName(2))>>)
    ELSE JList([i \in 1..RepoPageLen(l, p) |->
                  JObj(RepoItem(l, (p - 1) * PER_PAGE + i))])

\* the request: endpoint and query parameters
NoParams == [k \in {} |-> 0]
SearchRequest(query, p) ==
    [endpoint |-> <<"search/users">>,
     params |-> [q |-> query, per_page |-> PER_PAGE, page |-> p]]
ProfileRequest(l) == [endpoint |-> <<"users", l>>, params |-> NoParams]
ReposRequest(l, p) ==
    [endpoint |-> <<"users", l, "repos">>,
     params |-> [sort |-> "pushed", direction |-> "desc",
                 per_page |-> PER_PAGE, page |-> p]]

\* the bodies the API may send with status 200 in answer to r
Bodies200(r) ==
    IF r.endpoint = <<"search/users">>
    THEN IF r.params.q[2] = BigCity THEN {SearchPage(BigItems(r.params.page))}
         ELSE IF r.params.page > MaxSearchPages THEN EmptySearchBodies
         ELSE EmptySearchBodies \cup {SearchPage(l) : l \in SearchItemLists}
    ELSE IF Len(r.endpoint) = 2 THEN {Profile(r.endpoint[2])}
    ELSE {RepoPage(r.endpoint[2], r.params.page)}

\* the headers a 403 may carry: no X-RateLimit-Reset, or one whose text is a
\* time in the past or in the future of every clock reading
ResetTexts == {<<"0">>, <<"5">>}
HeaderSets == {NoHeaders} \cup {ResetHeader(text) : text \in ResetTexts}

\* statuses other than 200 and 403 that the API may send
OtherStatuses == {204, 500}

\* every outcome a GET of r may have
Outcomes(r) ==
    {Response(200, NoHeaders, b) : b \in Bodies200(r)}
    \cup {Response(403, h, JNull) : h \in HeaderSets}
    \cup {Response(st, NoHeaders, JNull) : st \in OtherStatuses}
    \cup {Failure(e) : e \in {"ConnectionError", "Timeout"}}

\* the readings time.time() may give while the outcome r is handled; only the
\* 403 branch reads the clock
ClockReadings(r) ==
    IF r.kind = "response" /\ r.status = 403 THEN 0..MaxClock ELSE {0}

\* -------------------------------------------------------------------- state
VARIABLES
    entry,   \* the operation the caller invoked: main, search_users, ...
    pc,      \* the position of the program
    retpc,   \* where make_request returns to
    mr,      \* frame of make_request: the request, the GET count, the sleeps
    ret,     \* the value make_request returned to its caller
    calls,   \* the requests make_request was called with, in order
    su,      \* frame of search_users: users, page, items, idx
    gr,      \* frame of get_user_repositories: username, max_repos, repos, page
    mn,      \* frame of main: input, token, users, idx, repos, all_repos
    files,   \* the files on disk: name -> rows
    out,     \* messages printed or logged by main and search_users
    seen,    \* history: the item lists of the search pages read at line 60
    result,  \* the value the invoked operation returned
    exc      \* the exception that left the invoked operation

vars ==
    <<entry, pc, retpc, mr, ret, calls, su, gr, mn, files, out, seen, result, exc>>

NoRequest == [endpoint |-> <<>>, params |-> NoParams]
NoOutcome == [kind |-> "none"]
\* mr.gets counts the GETs of the call and mr.nsleeps its sleeps, both up to
\* MaxGets ("MaxGets or more"); mr.slept is the duration of the latest sleep
\* and mr.now the clock reading it was computed from (0 when it was computed
\* from none); mr.last is the outcome of the last GET
IdleFrame ==
    [req |-> NoRequest, gets |-> 0, nsleeps |-> 0, slept |-> 0, now |-> 0,
     last |-> NoOutcome]
NewFrame(r) == [IdleFrame EXCEPT !.req = r]

None == JNull
NotReturned == [returned |-> FALSE]
Returned(v) == [returned |-> TRUE, value |-> v]
NoFiles == [f \in {} |-> <<>>]

Init ==
    /\ entry = "none"
    /\ pc = "idle"
    /\ retpc = "idle"
    /\ mr = IdleFrame
    /\ ret = None
    /\ calls = <<>>
    /\ su = [query |-> <<>>, users |-> <<>>, page |-> 0, items |-> <<>>, idx |-> 0]
    /\ gr = [username |-> None, max_repos |-> 0, repos |-> <<>>, page |-> 0]
    /\ mn = [input |-> <<>>, token |-> <<>>, users |-> <<>>, idx |-> 0,
             repos |-> <<>>, all_repos |-> <<>>]
    /\ files = NoFiles
    /\ out = <<>>
    /\ seen = <<>>
    /\ result = NotReturned
    /\ exc = "none"

\* ------------------------------------------------------------- make_request
\* make_request(endpoint, params) is entered: url is built, the loop starts
CallRequest(r, back) ==
    /\ pc' = "mr_get"
    /\ retpc' = back
    /\ mr' = NewFrame(r)
    /\ calls' = Append(calls, r)

\* line 31: requests.get is issued
MakeRequest_Get ==
    /\ pc = "mr_get"
    /\ pc' = "mr_wait"
    /\ mr' = [mr EXCEPT !.gets = Min(mr.gets + 1, MaxGets)]
    /\ UNCHANGED <<entry, retpc, ret, calls, su, gr, mn, files, out, seen, result, exc>>

\* mutant: a retry after a sleep moves on to the next page
AfterIteration_NextPage(frame, r, t, it) ==
    IF it.act = "sleep"
    THEN [frame EXCEPT !.last = r,
                       !.slept = it.duration,
                       !.nsleeps = Min(frame.nsleeps + 1, MaxGets),
                       !.now = IF it.readsClock THEN t ELSE 0,
                       !.req = IF "page" \in DOMAIN frame.req.params
                               THEN [frame.req EXCEPT !.params.page = @ + 1]
                               ELSE frame.req]
    ELSE [frame EXCEPT !.last = r]

\* the effect of one loop iteration on the frame, given what it does
AfterIteration(frame, r, t, it) ==
    IF it.act = "sleep"
    THEN [frame EXCEPT !.last = r,
                       !.slept = it.duration,
                       !.nsleeps = Min(frame.nsleeps + 1, MaxGets),
                       !.now = IF it.readsClock THEN t ELSE 0]
    ELSE [frame EXCEPT !.last = r]

\* lines 31-51: the GET ends with outcome r while the clock reads t
MakeRequest_Outcome ==
    /\ pc = "mr_wait"
    /\ \E r \in Outcomes(mr.req) : \E t \in ClockReadings(r) :
         LET it == LoopIteration(r, t) IN
         /\ mr' = AfterIteration(mr, r, t, it)
         /\ CASE it.act = "return" ->
                   /\ pc' = retpc /\ ret' = it.value /\ exc' = exc
              [] it.act = "raise" ->
                   /\ pc' = "raised" /\ exc' = it.exc /\ ret' = ret
              [] OTHER ->
                   /\ pc' = "mr_get" /\ ret' = ret /\ exc' = exc
    /\ UNCHANGED <<entry, retpc, calls, su, gr, mn, files, out, seen, result>>

\* an exception leaves the invoked operation: nothing in the program catches it
Propagate(e) ==
    /\ pc' = "raised"
    /\ exc' = e

\* ------------------------------------------------------------- search_users
Locations == {"Sydney"}
AllLocations == {"Sydney", BigCity}
MinFollowers == {100}

\* f"location:{location} followers:>={min_followers}"
Query(location, min_followers) ==
    <<"location:", location, " followers:>=", min_followers>>

\* lines 54-55
BeginSearchUsers(location, min_followers) ==
    /\ su' = [query |-> Query(location, min_followers), users |-> <<>>,
              page |-> 1, items |-> <<>>, idx |-> 0]
    /\ pc' = "su_loop"

\* a caller invokes search_users directly
CallSearchUsers ==
    /\ pc = "idle"
    /\ entry' = "search_users"
    /\ \E location \in Locations, min_followers \in MinFollowers :
         BeginSearchUsers(location, min_followers)
    /\ UNCHANGED <<retpc, mr, ret, calls, gr, mn, files, out, seen, result, exc>>

\* a caller invokes search_users directly, for any of the locations
CallSearchUsersAnywhere ==
    /\ pc = "idle"
    /\ entry' = "search_users"
    /\ \E location \in AllLocations, min_followers \in MinFollowers :
         BeginSearchUsers(location, min_followers)
    /\ UNCHANGED <<retpc, mr, ret, calls, gr, mn, files, out, seen, result, exc>>

\* lines 57-59: the next search page is requested
SearchUsers_Loop ==
    /\ pc = "su_loop"
    /\ CallRequest(SearchRequest(su.query, su.page), "su_page")
    /\ UNCHANGED <<entry, ret, su, gr, mn, files, out, seen, result, exc>>

\* data.get("items", []) if data else []
ItemsOf(data) ==
    IF Truthy(data) THEN DictGet(data.v, "items", JList(<<>>)) ELSE JList(<<>>)

\* lines 60-63: an empty page ends the pagination
SearchUsers_Page ==
    /\ pc = "su_page"
    /\ LET items == ItemsOf(ret) IN
       IF ~Truthy(items)
       THEN /\ pc' = "su_return"
            /\ su' = [su EXCEPT !.items = <<>>, !.idx = 0]
            /\ seen' = Append(seen, <<>>)
       ELSE /\ pc' = "su_item"
            /\ su' = [su EXCEPT !.items = items.v, !.idx = 1]
            /\ seen' = Append(seen, items.v)
    /\ mr' = IdleFrame
    /\ UNCHANGED <<entry, retpc, ret, calls, gr, mn, files, out, result, exc>>

\* mutant: page is not incremented after the last item of a page
SearchUsers_Item_SamePage ==
    /\ pc = "su_item"
    /\ IF su.idx > Len(su.items)
       THEN /\ pc' = "su_loop"
            /\ UNCHANGED <<retpc, mr, calls, su, exc>>
       ELSE LET user_info == su.items[su.idx] IN
            IF "login" \notin DOMAIN user_info
            THEN /\ Propagate("KeyError")
                 /\ UNCHANGED <<retpc, mr, calls, su>>
            ELSE /\ CallRequest(ProfileRequest(user_info["login"].v), "su_profile")
                 /\ UNCHANGED <<su, exc>>
    /\ UNCHANGED <<entry, ret, gr, mn, files, out, seen, result>>

\* lines 65-66 and 70: the profile of the next item is requested, or the
\* page is finished and page is incremented
SearchUsers_Item ==
    /\ pc = "su_item"
    /\ IF su.idx > Len(su.items)
       THEN /\ pc' = "su_loop"
            /\ su' = [su EXCEPT !.page = su.page + 1]
            /\ UNCHANGED <<retpc, mr, calls, exc>>
       ELSE LET user_info == su.items[su.idx] IN
            IF "login" \notin DOMAIN user_info
            THEN /\ Propagate("KeyError")
                 /\ UNCHANGED <<retpc, mr, calls, su>>
            ELSE /\ CallRequest(ProfileRequest(user_info["login"].v), "su_profile")
                 /\ UNCHANGED <<su, exc>>
    /\ UNCHANGED <<entry, ret, gr, mn, files, out, seen, result>>

\* mutant: a login already in users is not appended again
SearchUsers_Profile_Dedup ==
    /\ pc = "su_profile"
    /\ IF Truthy(ret)
       THEN LET e == extract_user_data(ret.v) IN
            IF e.exc # "none"
            THEN /\ Propagate(e.exc)
                 /\ su' = su
            ELSE /\ pc' = "su_item"
                 /\ su' = [su EXCEPT
                             !.users = IF \E i \in 1..Len(su.users) :
                                            su.users[i].login = e.v.login
                                       THEN su.users
                                       ELSE Append(su.users, e.v),
                             !.idx = su.idx + 1]
                 /\ exc' = exc
       ELSE /\ pc' = "su_item"
            /\ su' = [su EXCEPT !.idx = su.idx + 1]
            /\ exc' = exc
    /\ mr' = IdleFrame
    /\ UNCHANGED <<entry, retpc, ret, calls, gr, mn, files, out, seen, result>>

\* mutant: a profile that cannot be extracted is skipped
SearchUsers_Profile_SkipOnError ==
    /\ pc = "su_profile"
    /\ IF Truthy(ret) /\ extract_user_data(ret.v).exc = "none"
       THEN su' = [su EXCEPT !.users = Append(su.users, extract_user_data(ret.v).v),
                             !.idx = su.idx + 1]
       ELSE su' = [su EXCEPT !.idx = su.idx + 1]
    /\ pc' = "su_item"
    /\ mr' = IdleFrame
    /\ UNCHANGED <<entry, retpc, ret, calls, gr, mn, files, out, seen, result, exc>>

\* lines 67-68: a non-empty profile is extracted and appended
SearchUsers_Profile ==
    /\ pc = "su_profile"
    /\ IF Truthy(ret)
       THEN LET e == extract_user_data(ret.v) IN
            IF e.exc # "none"
            THEN /\ Propagate(e.exc)
                 /\ su' = su
            ELSE /\ pc' = "su_item"
                 /\ su' = [su EXCEPT !.users = Append(su.users, e.v),
                                     !.idx = su.idx + 1]
                 /\ exc' = exc
       ELSE /\ pc' = "su_item"
            /\ su' = [su EXCEPT !.idx = su.idx + 1]
            /\ exc' = exc
    /\ mr' = IdleFrame
    /\ UNCHANGED <<entry, retpc, ret, calls, gr, mn, files, out, seen, result>>

\* lines 72-73: the count is logged and users is returned
SearchUsers_Return ==
    /\ pc = "su_return"
    /\ out' = Append(out, <<"INFO", "Found users", Len(su.users)>>)
    /\ IF entry = "main"
       THEN /\ pc' = "main_users"
            /\ mn' = [mn EXCEPT !.users = su.users]
            /\ result' = result
       ELSE /\ pc' = "done"
            /\ result' = Returned(su.users)
            /\ mn' = mn
    /\ UNCHANGED <<entry, retpc, mr, ret, calls, su, gr, files, seen, exc>>

\* ---------------------------------------------------- get_user_repositories
\* mutant: the result is not truncated
Slice_None(s, n) == s

\* s[:n]
Slice(s, n) ==
    IF n >= 0 THEN SubSeq(s, 1, Min(n, Len(s)))
    ELSE SubSeq(s, 1, Max(0, Len(s) + n))

RepoOwners == {<<"a">>, <<"b">>, <<"c">>, <<"d">>, <<"f">>, <<"h">>}
MaxReposArgs == {0, 1, PER_PAGE, PER_PAGE + 50, DEFAULT_MAX_REPOS}

\* line 96
BeginGetUserRepositories(username, max_repos) ==
    /\ gr' = [username |-> username, max_repos |-> max_repos,
              repos |-> <<>>, page |-> 1]
    /\ pc' = "gr_loop"

\* a caller invokes get_user_repositories directly
CallGetUserRepositories ==
    /\ pc = "idle"
    /\ entry' = "get_user_repositories"
    /\ \E l \in RepoOwners, max_repos \in MaxReposArgs :
         BeginGetUserRepositories(JStr(l), max_repos)
    /\ UNCHANGED <<retpc, mr, ret, calls, su, mn, files, out, seen, result, exc>>

\* the while condition of line 98
MoreWanted(repos, max_repos) == Len(repos) < max_repos

\* lines 98-105: the next page is requested while fewer than max_repos
\* records are held
GetUserRepositories_Loop ==
    /\ pc = "gr_loop"
    /\ IF MoreWanted(gr.repos, gr.max_repos)
       THEN CallRequest(ReposRequest(gr.username.v, gr.page), "gr_page")
       ELSE /\ pc' = "gr_return"
            /\ UNCHANGED <<retpc, mr, calls>>
    /\ UNCHANGED <<entry, ret, su, gr, mn, files, out, seen, result, exc>>

\* lines 110-111: the records of the items of a page are appended to acc,
\* in order, until an extraction raises
ExtractRepos(username, list, acc) ==
    LET rs == [i \in 1..Len(list) |-> extract_repo_data(username, list[i].v)]
        bad == {i \in 1..Len(list) : rs[i].exc # "none"}
    IN  IF bad = {}
        THEN [exc |-> "none", repos |-> acc \o [i \in 1..Len(list) |-> rs[i].v]]
        ELSE LET k == CHOOSE i \in bad : \A j \in bad : i <= j IN
             [exc |-> rs[k].exc, repos |-> acc \o [i \in 1..(k - 1) |-> rs[i].v]]

\* mutant: a short page does not end the pagination
LastPage_Never(user_repos) == FALSE

\* the test of line 113: the page is the last one
LastPage(user_repos) == Len(user_repos) < PER_PAGE

\* lines 107-115: an empty page or a short page ends the pagination
GetUserRepositories_Page ==
    /\ pc = "gr_page"
    /\ IF ~Truthy(ret)
       THEN /\ pc' = "gr_return"
            /\ UNCHANGED <<gr, exc>>
       ELSE LET e == ExtractRepos(gr.username, ret.v, gr.repos) IN
            IF e.exc # "none"
            THEN /\ Propagate(e.exc)
                 /\ gr' = [gr EXCEPT !.repos = e.repos]
            ELSE /\ exc' = exc
                 /\ IF LastPage(ret.v)
                    THEN /\ pc' = "gr_return"
                         /\ gr' = [gr EXCEPT !.repos = e.repos]
                    ELSE /\ pc' = "gr_loop"
                         /\ gr' = [gr EXCEPT !.repos = e.repos,
                                             !.page = gr.page + 1]
    /\ mr' = IdleFrame
    /\ UNCHANGED <<entry, retpc, ret, calls, su, mn, files, out, seen, result>>

\* line 117: repos[:max_repos] is returned
GetUserRepositories_Return ==
    /\ pc = "gr_return"
    /\ LET value == Slice(gr.repos, gr.max_repos) IN
       IF entry = "main"
       THEN /\ pc' = "main_extend"
            /\ mn' = [mn EXCEPT !.repos = value]
            /\ result' = result
       ELSE /\ pc' = "done"
            /\ result' = Returned(value)
            /\ mn' = mn
    /\ UNCHANGED <<entry, retpc, mr, ret, calls, su, gr, files, out, seen, exc>>

\* --------------------------------------------------------------------- main
TokenInputs == {<<>>, <<" ">>, <<"t">>, <<" ", "t", "\n">>}

\* save_to_csv: the file is (over)written with the rows, then a line is logged
Saved(fs, filename, data) ==
    [f \in DOMAIN fs \cup {filename} |-> IF f = filename THEN data ELSE fs[f]]

\* mutant: users.csv and the repository loop do not depend on users
Main_Users_AlwaysSave ==
    /\ pc = "main_users"
    /\ files' = Saved(files, "users.csv", mn.users)
    /\ out' = Append(out, <<"INFO", "Data saved to", "users.csv">>)
    /\ mn' = [mn EXCEPT !.all_repos = <<>>, !.idx = 1]
    /\ pc' = "main_for"
    /\ UNCHANGED <<entry, retpc, mr, ret, calls, su, gr, seen, result, exc>>

\* lines 139-145: the token is read; an empty token ends main, otherwise the
\* scraper is built and search_users is entered
Main ==
    /\ pc = "idle"
    /\ entry' = "main"
    /\ \E text \in TokenInputs :
         LET token == Strip(text) IN
         IF token = <<>>
         THEN /\ out' = Append(out, <<"PRINT", "Token is required. Exiting...">>)
              /\ pc' = "done"
              /\ result' = Returned(None)
              /\ mn' = [mn EXCEPT !.input = text]
              /\ su' = su
         ELSE /\ mn' = [mn EXCEPT !.input = text, !.token = token]
              /\ BeginSearchUsers("Sydney", 100)
              /\ UNCHANGED <<out, result>>
    /\ UNCHANGED <<retpc, mr, ret, calls, gr, files, seen, exc>>

\* lines 147-150 and 158-159: users.csv is written when users is not empty
Main_Users ==
    /\ pc = "main_users"
    /\ IF mn.users # <<>>
       THEN /\ files' = Saved(files, "users.csv", mn.users)
            /\ out' = Append(out, <<"INFO", "Data saved to", "users.csv">>)
            /\ mn' = [mn EXCEPT !.all_repos = <<>>, !.idx = 1]
            /\ pc' = "main_for"
            /\ result' = result
       ELSE /\ out' = Append(out, <<"WARNING", "No users found matching the criteria.">>)
            /\ pc' = "done"
            /\ result' = Returned(None)
            /\ UNCHANGED <<files, mn>>
    /\ UNCHANGED <<entry, retpc, mr, ret, calls, su, gr, seen, exc>>

\* lines 151-152 and 155-156: the repositories of the next user are
\* fetched; after the last user repositories.csv is written
Main_For ==
    /\ pc = "main_for"
    /\ IF mn.idx <= Len(mn.users)
       THEN /\ BeginGetUserRepositories(mn.users[mn.idx].login, DEFAULT_MAX_REPOS)
            /\ UNCHANGED <<files, out, result>>
       ELSE /\ files' = Saved(files, "repositories.csv", mn.all_repos)
            /\ out' = out \o << <<"INFO", "Data saved to", "repositories.csv">>,
                                <<"INFO", "Scraped", Len(mn.users), Len(mn.all_repos)>> >>
            /\ pc' = "done"
            /\ result' = Returned(None)
            /\ gr' = gr
    /\ UNCHANGED <<entry, retpc, mr, ret, calls, su, mn, seen, exc>>

\* line 153: all_repos.extend(repos)
Main_Extend ==
    /\ pc = "main_extend"
    /\ mn' = [mn EXCEPT !.all_repos = mn.all_repos \o mn.repos,
                        !.idx = mn.idx + 1]
    /\ pc' = "main_for"
    /\ UNCHANGED <<entry, retpc, mr, ret, calls, su, gr, files, out, seen, result, exc>>

\* ------------------------------------------------------------ specification
Next ==
    \/ Main
    \/ CallSearchUsers
    \/ CallGetUserRepositories
    \/ MakeRequest_Get
    \/ MakeRequest_Outcome
    \/ SearchUsers_Loop
    \/ SearchUsers_Page
    \/ SearchUsers_Item
    \/ SearchUsers_Profile
    \/ SearchUsers_Return
    \/ GetUserRepositories_Loop
    \/ GetUserRepositories_Page
    \/ GetUserRepositories_Return
    \/ Main_Users
    \/ Main_For
    \/ Main_Extend

Spec == Init /\ [][Next]_vars

\* the program runs on: nothing stops it but its own termination
LiveSpec == Init /\ [][Next]_vars /\ WF_vars(Next)

\* search_users alone, called for any location
NextSearch ==
    \/ CallSearchUsersAnywhere
    \/ MakeRequest_Get
    \/ MakeRequest_Outcome
    \/ SearchUsers_Loop
    \/ SearchUsers_Page
    \/ SearchUsers_Item
    \/ SearchUsers_Profile
    \/ SearchUsers_Return

SearchSpec == Init /\ [][NextSearch]_vars

\* ------------------------------------------- the static methods on their own
\* clean_company_name, extract_user_data and extract_repo_data are static
\* methods; here each is called on its own with an argument held in ret.
CompanyChars == {" ", "@", "a"}
CompanyTexts ==
    UNION {[1..n -> CompanyChars] : n \in 0..MaxCompanyLen}
    \cup { <<" ", "@", "A", "c", "m", "e", " ">>, <<"@", "@", "a", "c", "m", "e">> }
\* Optional[str]
Companies == {JNull} \cup {JStr(text) : text \in CompanyTexts}

UserKeys ==
    {"login", "name", "company", "location", "email", "hireable", "bio",
     "public_repos", "followers", "following", "created_at"}
\* a value of the type the API documents for the key
UserSample(k) ==
    CASE k = "login" -> JStr(<<"a">>)
      [] k = "company" -> JStr(<<" ", "@", "a", "c", "m", "e", " ">>)
      [] k = "hireable" -> JBool(TRUE)
      [] k \in {"public_repos", "followers", "following"} -> JInt(7)
      [] OTHER -> JStr(<<"s">>)
\* the profile objects: any set of the keys present, each with a value
UserJsons == {JObj([k \in K |-> UserSample(k)]) : K \in SUBSET UserKeys}

RepoKeys ==
    {"full_name", "created_at", "stargazers_count", "watchers_count",
     "language", "has_projects", "has_wiki", "license"}
\* what the API sends as license: an object with its key, an object without
\* it, or null for a repository without a license
Licenses == {JObj([key |-> JStr(<<"m", "i", "t">>)]), JObj(EmptyObj), JNull}
RepoSample(k, lic) ==
    CASE k = "license" -> lic
      [] k \in {"stargazers_count", "watchers_count"} -> JInt(7)
      [] k \in {"has_projects", "has_wiki"} -> JBool(TRUE)
      [] OTHER -> JStr(<<"s">>)
\* the repository objects: any set of the keys present, any license value
RepoJsons ==
    {JObj([k \in K |-> RepoSample(k, lic)]) : K \in SUBSET RepoKeys, lic \in Licenses}

StaticMethods == {"clean_company_name", "extract_user_data", "extract_repo_data"}
Arguments(method) ==
    CASE method = "clean_company_name" -> Companies
      [] method = "extract_user_data" -> UserJsons
      [] method = "extract_repo_data" -> RepoJsons

\* a static method is about to be called with the argument ret
InitStatic ==
    /\ entry \in StaticMethods
    /\ ret \in Arguments(entry)
    /\ pc = "call"
    /\ retpc = "idle"
    /\ mr = IdleFrame
    /\ calls = <<>>
    /\ su = [query |-> <<>>, users |-> <<>>, page |-> 0, items |-> <<>>, idx |-> 0]
    /\ gr = [username |-> JStr(<<"a">>), max_repos |-> 0, repos |-> <<>>, page |-> 0]
    /\ mn = [input |-> <<>>, token |-> <<>>, users |-> <<>>, idx |-> 0,
             repos |-> <<>>, all_repos |-> <<>>]
    /\ files = NoFiles
    /\ out = <<>>
    /\ seen = <<>>
    /\ result = NotReturned
    /\ exc = "none"

\* the call ends with the value or with the exception of the method
Finish(e) ==
    IF e.exc = "none"
    THEN /\ pc' = "done" /\ result' = Returned(e.v) /\ exc' = exc
    ELSE /\ Propagate(e.exc) /\ result' = result

Call_clean_company_name ==
    /\ pc = "call" /\ entry = "clean_company_name"
    /\ Finish(Val(clean_company_name(ret)))
    /\ UNCHANGED <<entry, retpc, mr, ret, calls, su, gr, mn, files, out, seen>>

Call_extract_user_data ==
    /\ pc = "call" /\ entry = "extract_user_data"
    /\ Finish(extract_user_data(ret.v))
    /\ UNCHANGED <<entry, retpc, mr, ret, calls, su, gr, mn, files, out, seen>>

Call_extract_repo_data ==
    /\ pc = "call" /\ entry = "extract_repo_data"
    /\ Finish(extract_repo_data(gr.username, ret.v))
    /\ UNCHANGED <<entry, retpc, mr, ret, calls, su, gr, mn, files, out, seen>>

NextStatic ==
    \/ Call_clean_company_name
    \/ Call_extract_user_data
    \/ Call_extract_repo_data

StaticSpec == InitStatic /\ [][NextStatic]_vars

\* ------------------------------------------------------------------ claims
InRequest == pc \in {"mr_get", "mr_wait"}
Terminated == pc \in {"done", "raised"}
\* make_request has just returned: its frame is not yet discarded
JustReturned == mr # IdleFrame /\ ~InRequest /\ pc # "raised"
FatalStatus(r) == r.kind = "response" /\ r.status \notin {200, 403}
RateLimited(r) == r.kind = "response" /\ r.status = 403
NetworkFailure(r) == r.kind = "error"

\* C1: a response whose status is neither 200 nor 403 makes make_request
\* raise to its caller at once: the step that handles it ends the call with
\* HTTPError, sleeps no further and sends nothing again.
C1_FatalStatusRaisesAfterOneGet ==
    [][(pc = "mr_wait" /\ pc' # "mr_wait" /\ FatalStatus(mr'.last))
         => (pc' = "raised" /\ exc' = "HTTPError" /\ mr'.nsleeps = mr.nsleeps)]_vars

\* C2: make_request hands a value to its caller only in the step that
\* handles a 200 response, and the value is the body of that response,
\* whatever 403 responses and network failures came before; a 403 or a
\* network failure never leaves make_request as an exception.
C2_ReturnsOnlyBodyOf200 ==
    /\ JustReturned =>
         /\ mr.last.kind = "response" /\ mr.last.status = 200
         /\ ret = mr.last.body
         /\ pc = retpc
         /\ exc = "none"
    /\ (pc = "raised" /\ mr # IdleFrame) => FatalStatus(mr.last)

\* C2 witness: a body is returned after a retry that slept
C2_Witness ==
    /\ JustReturned /\ mr.gets >= 2 /\ mr.nsleeps >= 1
    /\ mr.last.status = 200 /\ ret = mr.last.body /\ Truthy(ret)

\* the seconds a reset header stands for, read off the header text
HeaderSeconds(headers) ==
    IF "X-RateLimit-Reset" \notin DOMAIN headers THEN 0
    ELSE IF headers["X-RateLimit-Reset"] = <<"5">> THEN 5
    ELSE 0

\* C3: after every 403 the call has slept max(resetTime - now, 0) + 1 seconds
\* (resetTime 0 without the header), at least one second, and is still in its
\* loop, sending the request again, however many GETs were sent before; and when a
\* single 403 whose reset is 5 seconds after the clock reading (to within one
\* second) is followed by a 200, the call returns the body of the 200 after
\* exactly one sleep of at least 5 and less than 7 seconds.
C3_RateLimitSleep ==
    /\ [](RateLimited(mr.last) =>
            /\ InRequest
            /\ mr.slept = Max(HeaderSeconds(mr.last.headers) * TicksPerSec - mr.now, 0)
                          + TicksPerSec
            /\ mr.slept >= TicksPerSec)
    /\ [][(/\ pc = "mr_wait" /\ mr.nsleeps = 1 /\ RateLimited(mr.last)
           /\ HeaderSeconds(mr.last.headers) * TicksPerSec - mr.now > 4 * TicksPerSec
           /\ HeaderSeconds(mr.last.headers) * TicksPerSec - mr.now <= 5 * TicksPerSec
           /\ mr'.last.kind = "response" /\ mr'.last.status = 200)
          => (/\ pc' = retpc /\ ret' = mr'.last.body
              /\ mr'.nsleeps = 1
              /\ mr'.slept >= 5 * TicksPerSec /\ mr'.slept < 7 * TicksPerSec)]_vars

\* C3 witness: a call returned after one 403 with reset = now + 5 and a
\* sleep of 6 seconds
C3_Witness ==
    /\ JustReturned /\ mr.gets >= 2 /\ mr.nsleeps = 1
    /\ mr.slept = 6 * TicksPerSec /\ mr.now = 0
    /\ mr.last.status = 200 /\ ret = mr.last.body

\* C4: after every network-level failure (connection error or timeout) the
\* call has slept 5 seconds, the same at every attempt, is still in its loop,
\* sending the request again, and nothing was raised.
C4_NetworkFailureSleepsFive ==
    NetworkFailure(mr.last) =>
        /\ InRequest
        /\ mr.slept = 5 * TicksPerSec
        /\ exc = "none"

\* C4 witness: a timeout after an earlier failed attempt of the same call
C4_Witness ==
    /\ NetworkFailure(mr.last) /\ mr.last.error = "Timeout"
    /\ mr.gets >= 2 /\ mr.nsleeps >= 2 /\ pc = "mr_get"

IsSearch(r) == Len(r.endpoint) = 1
IsRepos(r) == Len(r.endpoint) = 3
SearchCalls == SelectSeq(calls, IsSearch)
IsPrefix(s, t) == Len(s) <= Len(t) /\ s = SubSeq(t, 1, Len(s))

RECURSIVE Flatten(_)
Flatten(ss) == IF ss = <<>> THEN <<>> ELSE Head(ss) \o Flatten(Tail(ss))

\* search_users has returned its list
SearchReturned ==
    pc = "su_return" \/ (entry = "search_users" /\ pc = "done")
\* search_users is running or has ended
SearchPhase ==
    \/ pc \in {"su_loop", "su_page", "su_item", "su_profile", "su_return"}
    \/ InRequest /\ retpc \in {"su_page", "su_profile"}
    \/ entry = "search_users" /\ Terminated
HasLogin(item) == "login" \in DOMAIN item
ProfileFound(item) == HasLogin(item) /\ Truthy(Profile(item["login"].v))
ItemsSeen == Flatten(seen)

\* C5: the search requests are for pages 1, 2, 3, ... in this order, each
\* with per_page 100; no page is requested after a page without items; when
\* search_users returns, the pages read are n non-empty pages followed by
\* one empty page and exactly n + 1 search requests were made, and the list
\* returned has one record per item when every item has a profile.
C5_PagesInOrderUntilEmpty ==
    /\ \A i \in 1..Len(SearchCalls) :
         /\ SearchCalls[i].params.page = i
         /\ SearchCalls[i].params.per_page = 100
    /\ Len(SearchCalls) \in {Len(seen), Len(seen) + 1}
    /\ \A i \in 1..(Len(seen) - 1) : seen[i] # <<>>
    /\ (seen # <<>> /\ seen[Len(seen)] = <<>>) => Len(SearchCalls) = Len(seen)
    /\ SearchReturned =>
         /\ seen # <<>> /\ seen[Len(seen)] = <<>>
         /\ Len(SearchCalls) = Len(seen)
         /\ (\A i \in 1..Len(ItemsSeen) : ProfileFound(ItemsSeen[i]))
              => Len(su.users) = Len(ItemsSeen)
         /\ (Len(seen) = 3 /\ Len(seen[1]) = 100 /\ Len(seen[2]) = 100)
              => (Len(SearchCalls) = 3 /\ Len(su.users) = 200)

\* C5 witness: pages of 100, 100 and 0 items, three search requests, 200
\* records returned
C5_Witness ==
    /\ entry = "search_users" /\ pc = "done"
    /\ Len(seen) = 3 /\ Len(seen[1]) = 100 /\ Len(seen[2]) = 100
    /\ seen[3] = <<>>
    /\ Len(SearchCalls) = 3
    /\ Len(result.value) = 200

\* the requests of one search page: the page, then one profile per item
PageCalls(query, p, items) ==
    <<SearchRequest(query, p)>>
    \o [i \in 1..Len(items) |-> ProfileRequest(items[i]["login"].v)]

RECURSIVE ExpectedCalls(_, _, _)
\* the requests of the pages p, p + 1, ... whose item lists are in pages
ExpectedCalls(query, p, pages) ==
    IF pages = <<>> THEN <<>>
    ELSE PageCalls(query, p, Head(pages)) \o ExpectedCalls(query, p + 1, Tail(pages))

\* the logins of the items that have a profile, in the order seen
ExpectedLogins ==
    LET found == SelectSeq(ItemsSeen, ProfileFound) IN
    [i \in 1..Len(found) |-> found[i]["login"]]
UserLogins == [i \in 1..Len(su.users) |-> su.users[i].login]

\* C6: while search_users runs, the requests made so far are, page by page,
\* the search request followed by one profile request users/{login} per
\* item, in item order, all before the next page's search request; when it
\* returns every item of every page has had exactly one profile request and
\* the list holds one record per item with a non-empty profile, in the order
\* seen, repeated items included, empty profiles left out.
C6_OneProfilePerItemInOrder ==
    /\ (SearchPhase /\ \A i \in 1..Len(ItemsSeen) : HasLogin(ItemsSeen[i])) =>
         IsPrefix(calls, ExpectedCalls(su.query, 1, seen)
                         \o <<SearchRequest(su.query, Len(seen) + 1)>>)
    /\ pc = "su_loop" => calls = ExpectedCalls(su.query, 1, seen)
    /\ SearchPhase => IsPrefix(UserLogins, ExpectedLogins)
    /\ SearchReturned =>
         /\ calls = ExpectedCalls(su.query, 1, seen)
         /\ UserLogins = ExpectedLogins

\* C6 witness: the same page, with an empty profile and a found one, was
\* served twice: two records of the same login, the empty profile skipped
C6_Witness ==
    /\ entry = "search_users" /\ pc = "done"
    /\ Len(seen) = 3 /\ seen[1] = seen[2] /\ Len(seen[1]) = 2
    /\ ~ProfileFound(seen[1][1])
    /\ Len(result.value) = 2
    /\ result.value[1].login = result.value[2].login

ReposReturned == entry = "get_user_repositories" /\ pc = "done"
Owner == gr.username.v

RECURSIVE ItemsOnPages(_, _)
\* the number of items on the pages 1..k of the repositories of l
ItemsOnPages(l, k) ==
    IF k = 0 THEN 0 ELSE ItemsOnPages(l, k - 1) + RepoPageLen(l, k)

\* C7: get_user_repositories returns at most max_repos records, and exactly
\* max_repos when the pages it fetched hold at least max_repos items; with
\* a full page at every page number and max_repos = 150 it returns exactly
\* 150 records after exactly 2 requests.  The same bound holds for the list
\* handed to main.
C7_TruncatedToMaxRepos ==
    /\ ReposReturned =>
         /\ Len(result.value) <= gr.max_repos
         /\ ItemsOnPages(Owner, Len(calls)) >= gr.max_repos
              => Len(result.value) = gr.max_repos
         /\ (Owner \in Endless /\ gr.max_repos = 150)
              => (Len(result.value) = 150 /\ Len(calls) = 2)
    /\ pc = "main_extend" => Len(mn.repos) <= gr.max_repos

\* C7 witness: 200 items fetched in 2 requests, 150 returned
C7_Witness ==
    /\ ReposReturned /\ Owner \in Endless /\ gr.max_repos = 150
    /\ Len(gr.repos) = 200 /\ Len(calls) = 2 /\ Len(result.value) = 150

RECURSIVE ExpectedRequests(_, _, _, _)
\* the number of page requests from page p on, with acc records held: none
\* when max_repos is reached, one when the page is empty or short
ExpectedRequests(l, max_repos, p, acc) ==
    IF acc >= max_repos THEN 0
    ELSE IF RepoPageLen(l, p) = 0 \/ RepoPageLen(l, p) < 100 THEN 1
    ELSE 1 + ExpectedRequests(l, max_repos, p + 1, acc + RepoPageLen(l, p))

\* C8: whenever a repository page is being requested, fewer than max_repos
\* records are held and every earlier page of the call held 100 items; a
\* call that returned made exactly the requests for pages 1..k, k being the
\* first page at which max_repos is reached or the page is empty or short;
\* a first page of ShortPage (30) items gives 1 request and that many
\* records, and max_repos = 0 gives no request.
C8_NoRequestAfterStop ==
    /\ (InRequest /\ retpc = "gr_page") =>
         /\ mr.req = ReposRequest(Owner, gr.page)
         /\ Len(gr.repos) < gr.max_repos
         /\ \A j \in 1..(gr.page - 1) : RepoPageLen(Owner, j) = 100
    /\ ReposReturned =>
         /\ Len(calls) = ExpectedRequests(Owner, gr.max_repos, 1, 0)
         /\ \A i \in 1..Len(calls) : calls[i] = ReposRequest(Owner, i)
         /\ (RepoPageLen(Owner, 1) = ShortPage /\ gr.max_repos >= ShortPage)
              => (Len(calls) = 1 /\ Len(result.value) = ShortPage)
         /\ gr.max_repos = 0 => (calls = <<>> /\ result.value = <<>>)

\* C8 witness: a first page of ShortPage items ended the call after one
\* request
C8_Witness ==
    /\ ReposReturned /\ gr.max_repos = DEFAULT_MAX_REPOS
    /\ RepoPageLen(Owner, 1) = ShortPage
    /\ Len(calls) = 1 /\ Len(result.value) = ShortPage

\* C9: in a run of main, once a request got a status other than 200 and
\* 403 the run has ended with the error and repositories.csv is not written.
C9_FatalStatusEndsRun ==
    (entry = "main" /\ FatalStatus(mr.last)) =>
        /\ pc = "raised" /\ exc = "HTTPError"
        /\ "repositories.csv" \notin DOMAIN files

\* a transient failure is being retried
TransientRetry == InRequest /\ (RateLimited(mr.last) \/ NetworkFailure(mr.last))

\* C10: every run of main in which no streak of 403 responses and network failures
\* goes on forever terminates, by completing or by raising; the search
\* endpoint serves an empty page after MaxSearchPages pages at the latest.
C10_RunTerminates ==
    ([]<>~TransientRetry) => <>(Terminated \/ entry \notin {"none", "main"})

MainRun == entry = "main"
ReposCalls == SelectSeq(calls, IsRepos)
LastOut == out[Len(out)]
\* the user search of main has handed an empty list to main
SearchCameBackEmpty ==
    MainRun /\ su.users = <<>> /\ pc \in {"main_users", "done"} /\ mn.token # <<>>

\* C11: when the user search of a run returns an empty list, the run ends
\* normally with a warning as its last message, no file written (neither
\* users.csv nor repositories.csv) and no repository request made.
C11_EmptySearchWritesNothing ==
    /\ SearchCameBackEmpty =>
         /\ files = NoFiles
         /\ ReposCalls = <<>>
         /\ exc = "none"
    /\ (SearchCameBackEmpty /\ pc = "done") =>
         /\ result = Returned(None)
         /\ LastOut = <<"WARNING", "No users found matching the criteria.">>
    /\ (MainRun /\ su.users = <<>> /\ mn.token # <<>>) =>
         pc \notin {"main_for", "main_extend", "gr_loop", "gr_page", "gr_return"}

\* C11 witness: a run ended after a search that read items but found no
\* record, or read none, with the warning logged
C11_Witness ==
    /\ SearchCameBackEmpty /\ pc = "done"
    /\ Len(calls) >= 1 /\ files = NoFiles
    /\ LastOut[1] = "WARNING"

\* the logins of the user records the search of the run produced
RunUserLogins == {su.users[i].login : i \in 1..Len(su.users)}
LoginsOf(records) == {records[i].login : i \in 1..Len(records)}

\* C12: in a run, every repository record (being gathered, gathered, or
\* written to repositories.csv) carries the login of a user record that the
\* user search of the same run produced, and every repository request is
\* for users/{login}/repos of such a login.
C12_RepoLoginsAreUserLogins ==
    MainRun =>
        /\ LoginsOf(gr.repos) \subseteq RunUserLogins
        /\ LoginsOf(mn.repos) \subseteq RunUserLogins
        /\ LoginsOf(mn.all_repos) \subseteq RunUserLogins
        /\ "repositories.csv" \in DOMAIN files =>
              LoginsOf(files["repositories.csv"]) \subseteq RunUserLogins
        /\ \A i \in 1..Len(ReposCalls) :
              /\ ReposCalls[i].endpoint[1] = "users"
              /\ ReposCalls[i].endpoint[3] = "repos"
              /\ JStr(ReposCalls[i].endpoint[2]) \in RunUserLogins
        /\ "users.csv" \in DOMAIN files => files["users.csv"] = su.users

\* C12 witness: a completed run with two users and repository records of
\* one of them in repositories.csv
C12_Witness ==
    /\ MainRun /\ pc = "done"
    /\ "repositories.csv" \in DOMAIN files
    /\ Len(files["repositories.csv"]) >= ShortPage
    /\ Cardinality(RunUserLogins) = 2
    /\ Len(ReposCalls) >= 2

AllWhitespace(text) == \A i \in 1..Len(text) : text[i] \in {" ", "\t", "\n"}

\* C13: a run whose credential input is empty or made of whitespace only
\* prints "Token is required. Exiting..." and returns normally at once: no
\* request is made and no file is written.
C13_EmptyTokenReturnsAtOnce ==
    (MainRun /\ AllWhitespace(mn.input)) =>
        /\ pc = "done"
        /\ result = Returned(None)
        /\ exc = "none"
        /\ out = << <<"PRINT", "Token is required. Exiting...">> >>
        /\ calls = <<>>
        /\ files = NoFiles
        /\ mr = IdleFrame

\* C13 witness: the input was a single blank and the run has returned
C13_Witness ==
    /\ MainRun /\ mn.input = <<" ">> /\ pc = "done"
    /\ Len(out) = 1 /\ calls = <<>>

\* str with one leading "@" removed, when there is one
WithoutOneAt(text) == IF text # <<>> /\ Head(text) = "@" THEN Tail(text) ELSE text
Cleaned(m) == entry = m /\ pc = "done"

\* C14: clean_company_name returns the input trimmed of surrounding
\* whitespace, then without one leading "@" (one only, when there are
\* several), then in upper case; None and "" give ""; " @Acme " gives "ACME".
C14_CleanCompanyName ==
    Cleaned("clean_company_name") =>
        /\ result.value.t = "str"
        /\ ret = JNull => result.value.v = <<>>
        /\ ret # JNull => result.value.v = Upper(WithoutOneAt(Strip(ret.v)))
        /\ ret = JStr(<<" ", "@", "A", "c", "m", "e", " ">>)
             => result.value.v = <<"A", "C", "M", "E">>

RepoRequiredKeys == {"full_name", "created_at", "stargazers_count", "watchers_count"}
RepoCallEnded == entry = "extract_repo_data" /\ pc \in {"done", "raised"}
NoLicenseObject(d) == "license" \notin DOMAIN d \/ d["license"] = JNull

\* C15: extract_repo_data fails exactly when one of full_name, created_at,
\* stargazers_count, watchers_count is absent; otherwise it yields a record
\* whose license_name is "" when the license key is absent or null, and the
\* key of the license object when the object has one.
C15_LicenseNameDefaultsToEmpty ==
    RepoCallEnded =>
        IF ~(RepoRequiredKeys \subseteq DOMAIN ret.v)
        THEN pc = "raised"
        ELSE /\ pc = "done"
             /\ NoLicenseObject(ret.v) => result.value.license_name = JStr(<<>>)
             /\ (~NoLicenseObject(ret.v) /\ "key" \in DOMAIN ret.v["license"].v)
                  => result.value.license_name = ret.v["license"].v["key"]

OptionalUserKeys == UserKeys \ {"login"}
\* the default the claim gives for an absent optional field
UserDefault(k) ==
    CASE k \in {"public_repos", "followers", "following"} -> JInt(0)
      [] k = "hireable" -> JBool(FALSE)
      [] OTHER -> JStr(<<>>)
UserCallEnded == entry = "extract_user_data" /\ pc \in {"done", "raised"}

\* C16: extract_user_data fails with KeyError exactly when login is absent;
\* otherwise the record has the login of the JSON, for every absent optional
\* field its default ("" for name, location, email, bio, created_at and
\* company, 0 for public_repos, followers, following, false for hireable),
\* and for every field present other than company the value of the JSON.
C16_UserDefaults ==
    UserCallEnded =>
        IF "login" \notin DOMAIN ret.v
        THEN pc = "raised" /\ exc = "KeyError" /\ result = NotReturned
        ELSE /\ pc = "done"
             /\ result.value.login = ret.v["login"]
             /\ \A k \in OptionalUserKeys \ DOMAIN ret.v :
                  result.value[k] = UserDefault(k)
             /\ \A k \in (DOMAIN ret.v) \ {"company"} :
                  result.value[k] = ret.v[k]

\* C16 witness: a profile holding nothing but its login gave a record with
\* every default
C16_Witness ==
    /\ entry = "extract_user_data" /\ pc = "done"
    /\ DOMAIN ret.v = {"login"}
    /\ result.value.name = JStr(<<>>) /\ result.value.hireable = JBool(FALSE)
    /\ result.value.company = JStr(<<>>) /\ result.value.followers = JInt(0)

\* a required field is absent from the JSON the next step extracts from
ItemLacksLogin ==
    pc = "su_item" /\ su.idx <= Len(su.items) /\ "login" \notin DOMAIN su.items[su.idx]
ProfileLacksLogin ==
    pc = "su_profile" /\ Truthy(ret) /\ "login" \notin DOMAIN ret.v
RepoLacksRequired ==
    /\ pc = "gr_page" /\ Truthy(ret)
    /\ \E i \in 1..Len(ret.v) : ~(RepoRequiredKeys \subseteq DOMAIN ret.v[i].v)
ExtractionFailed == pc = "raised" /\ exc = "KeyError"

\* C17: the step that meets a required field absent from a 200 response
\* (login of a search item or of a profile, full_name, created_at,
\* stargazers_count or watchers_count of a repository) ends the run with
\* the KeyError: no request and no file is added by it, nothing is returned,
\* and no step follows it; repositories.csv is never written in such a run
\* and in the user phase no file at all.
C17_ExtractionErrorEndsRun ==
    /\ [][(ItemLacksLogin \/ ProfileLacksLogin \/ RepoLacksRequired)
            => (/\ ExtractionFailed'
                /\ calls' = calls /\ files' = files /\ out' = out
                /\ result' = result /\ su'.users = su.users)]_vars
    /\ [][~ExtractionFailed]_vars
    /\ [](ExtractionFailed =>
            /\ result = NotReturned
            /\ "repositories.csv" \notin DOMAIN files
            /\ (mn.users = <<>> => files = NoFiles))

\* C17 witness: a run that wrote users.csv ended in the repository phase
\* on a repository without full_name, after one record of that page
C17_Witness ==
    /\ MainRun /\ ExtractionFailed
    /\ "users.csv" \in DOMAIN files
    /\ gr.username = JStr(<<"f">>) /\ Len(gr.repos) = 1
    /\ Len(ReposCalls) >= 1

\* a step of the loop of make_request that stays in the call: the GET is
\* sent, or its outcome leads to a retry
StaysInCall == InRequest /\ InRequest'
NonEmptyPagesSeen == Cardinality({i \in 1..Len(seen) : seen[i] # <<>>})
\* the records are those of the items 1, 2, ..., in order
InItemOrder(records) ==
    \A i \in 1..Len(records) : records[i].stargazers_count = JInt(i)

\* C18: every send and every retry inside make_request keeps the request
\* (endpoint and parameters), the caller's page counter and its list; the
\* request being sent is always the one for the caller's current page or
\* item; search_users' page counter is one more than the number of
\* non-empty pages it read, and get_user_repositories holds, and returns,
\* the records of the items 1, 2, ... in order, 100 per page fetched,
\* whatever 403 responses and network failures occurred in between.
C18_RetryKeepsRequestAndCaller ==
    /\ [][StaysInCall =>
            /\ mr'.req = mr.req
            /\ su' = su /\ gr' = gr /\ mn' = mn
            /\ calls' = calls /\ seen' = seen /\ retpc' = retpc]_vars
    /\ []((InRequest /\ retpc = "su_page") =>
            /\ mr.req = SearchRequest(su.query, su.page)
            /\ su.page = NonEmptyPagesSeen + 1
            /\ Len(seen) = su.page - 1)
    /\ []((InRequest /\ retpc = "su_profile") =>
            /\ mr.req = ProfileRequest(su.items[su.idx]["login"].v)
            /\ su.items = seen[Len(seen)]
            /\ su.page = NonEmptyPagesSeen)
    /\ []((InRequest /\ retpc = "gr_page") =>
            /\ mr.req = ReposRequest(Owner, gr.page)
            /\ Len(gr.repos) = (gr.page - 1) * 100
            /\ InItemOrder(gr.repos))
    /\ [](ReposReturned =>
            /\ InItemOrder(result.value)
            /\ Len(result.value) = Min(gr.max_repos, ItemsOnPages(Owner, Len(calls))))

\* C18 witness: the request for page 2 of a repository listing is about to
\* be sent again after a 403, with the 100 records of page 1 held
C18_Witness ==
    /\ pc = "mr_get" /\ retpc = "gr_page" /\ RateLimited(mr.last)
    /\ mr.gets >= 1 /\ mr.nsleeps >= 1
    /\ gr.page = 2 /\ Len(gr.repos) = 100
    /\ mr.req = ReposRequest(Owner, 2)

====
